---- MODULE Spec2Model ----
(***************************************************************************)
(* Turnout registry (TurnoutManager), Turnout entity, the <T ...> command  *)
(* adapter and the DCC accessory packet encoder of the DCC++ESP32 base     *)
(* station, modelled from Turnouts.cpp.                                    *)
(***************************************************************************)
EXTENDS Integers, Sequences, FiniteSets, TLC

(***************************************************************************)
(* Bounds of the model.                                                    *)
(***************************************************************************)
\* number of operations explored from power-on
MaxOps == 4
\* cap on the registry length when init() appends to a non-empty registry
MaxTurnouts == 3

(***************************************************************************)
(* Input domains.                                                          *)
(***************************************************************************)
\* TurnoutOrientation, indexes of ORIENTATION_STRINGS
LEFT == 0
RIGHT == 1
WYE == 2
MULTI == 3

IDs == {5, 7}
Addresses == {10, 20}
Indexes == {-1, 2}
\* orientations passed to createOrUpdate explicitly; the <T ...> command passes none
Orientations == {WYE}
\* createOrUpdate's orientation when the caller passes three arguments
DefaultOrientation == 0
\* the ids and addresses the <T ...> command is given
CommandIDs == {5}
CommandAddresses == {10}

(***************************************************************************)
(* Fixed-width integer conversions.                                        *)
(***************************************************************************)
U8(x) == x % 256
U16(x) == x % 65536
I8(x) == LET u == x % 256 IN IF u >= 128 THEN u - 256 ELSE u
BoolInt(b) == IF b THEN 1 ELSE 0

RECURSIVE BitXor(_, _, _)
BitXor(a, b, n) ==
  IF n = 0 THEN 0
  ELSE (((a % 2) + (b % 2)) % 2) + 2 * BitXor(a \div 2, b \div 2, n - 1)

(***************************************************************************)
(* Arduino String: decimal text of an integer and String::toInt.           *)
(* A String is a sequence of one-character strings.                        *)
(***************************************************************************)
DigitChar(d) == CASE d = 0 -> "0" [] d = 1 -> "1" [] d = 2 -> "2" [] d = 3 -> "3"
                  [] d = 4 -> "4" [] d = 5 -> "5" [] d = 6 -> "6" [] d = 7 -> "7"
                  [] d = 8 -> "8" [] OTHER -> "9"
IsDigit(c) == c \in {"0", "1", "2", "3", "4", "5", "6", "7", "8", "9"}
DigitVal(c) == CASE c = "0" -> 0 [] c = "1" -> 1 [] c = "2" -> 2 [] c = "3" -> 3
                 [] c = "4" -> 4 [] c = "5" -> 5 [] c = "6" -> 6 [] c = "7" -> 7
                 [] c = "8" -> 8 [] OTHER -> 9

RECURSIVE Digits(_)
Digits(n) == IF n < 10 THEN <<DigitChar(n)>>
             ELSE Digits(n \div 10) \o <<DigitChar(n % 10)>>

\* String(int), String(unsigned char), String(unsigned int): base 10
String(n) == IF n < 0 THEN <<"-">> \o Digits(-n) ELSE Digits(n)

RECURSIVE ParseDigits(_, _, _)
ParseDigits(s, i, acc) ==
  IF i > Len(s) \/ ~IsDigit(s[i]) THEN acc
  ELSE ParseDigits(s, i + 1, acc * 10 + DigitVal(s[i]))

\* String::toInt: optional sign, leading digits, 0 when there are none
toInt(s) ==
  IF Len(s) > 0 /\ s[1] = "-" THEN -ParseDigits(s, 2, 0)
  ELSE ParseDigits(s, 1, 0)

(***************************************************************************)
(* Events an operation produces, in order: a packet loaded into            *)
(* dccSignal[DCC_SIGNAL_OPERATIONS] or a line sent to wifiInterface.       *)
(***************************************************************************)
PacketEvent(bytes, repeat) == [kind |-> "packet", args |-> bytes \o <<repeat>>]
\* wifiInterface.printf(F("<H %d %d>"), ...) and F("<H %d %d %d %d>")
HEvent(args) == [kind |-> "H", args |-> args]
\* COMMAND_SUCCESSFUL_RESPONSE <O>, COMMAND_FAILED_RESPONSE <X>
COMMAND_SUCCESSFUL_RESPONSE == [kind |-> "O", args |-> <<>>]
COMMAND_FAILED_RESPONSE == [kind |-> "X", args |-> <<>>]

\* the mapper without the rounding term
calculateTurnoutBoardAddressAndIndex_truncating(address) ==
  LET boardAddress == U16(address \div 4)
  IN [boardAddress |-> boardAddress,
      boardIndex |-> U8((address - (boardAddress * 4)) + 3)]

(***************************************************************************)
(* calculateTurnoutBoardAddressAndIndex                                    *)
(***************************************************************************)
calculateTurnoutBoardAddressAndIndex(address) ==
  LET boardAddress == U16((address + 3) \div 4)
  IN [boardAddress |-> boardAddress,
      boardIndex |-> U8((address - (boardAddress * 4)) + 3)]

\* process that does not reduce the index modulo 4
AccessoryCommandProcess_indexUnmasked(arguments) ==
  LET accessoryAddress == U16(toInt(arguments[1]))
      accessoryIndex == U8(toInt(arguments[2]))
      activate == BoolInt(toInt(arguments[3]) = 1)
      byte0 == U8(128 + (accessoryAddress % 64))
      byte1 == U8(BitXor((((accessoryAddress \div 64) % 8) * 16)
                           + (accessoryIndex * 2) + activate, 248, 16))
  IN <<PacketEvent(<<byte0, byte1>>, 1)>>

(***************************************************************************)
(* AccessoryCommand::process: the two packet bytes and the repeat count.   *)
(***************************************************************************)
AccessoryCommandProcess(arguments) ==
  LET accessoryAddress == U16(toInt(arguments[1]))
      accessoryIndex == U8(toInt(arguments[2]))
      activate == BoolInt(toInt(arguments[3]) = 1)
      byte0 == U8(128 + (accessoryAddress % 64))
      byte1 == U8(BitXor((((accessoryAddress \div 64) % 8) * 16)
                           + ((accessoryIndex % 4) * 2) + activate, 248, 16))
  IN <<PacketEvent(<<byte0, byte1>>, 1)>>

(***************************************************************************)
(* Turnout                                                                 *)
(***************************************************************************)
\* Turnout::Turnout(turnoutID, address, index, thrown, orientation)
Turnout(turnoutID, address, index, thrown, orientation) ==
  LET calc == calculateTurnoutBoardAddressAndIndex(address)
  IN [id |-> turnoutID,
      address |-> address,
      index |-> IF index = -1 THEN calc.boardIndex ELSE U8(index),
      boardAddress |-> IF index = -1 THEN calc.boardAddress ELSE 0,
      thrown |-> thrown,
      orientation |-> orientation]

\* a loader that takes the stored boardAddress and sub-address as they are
TurnoutFromJson_noDerivation(json) ==
  [id |-> U16(json.id),
   address |-> U16(json.address),
   index |-> U8(json.subAddress),
   boardAddress |-> U16(json.boardAddress),
   thrown |-> json.state,
   orientation |-> json.orientation]

\* Turnout::Turnout(JsonObject &json)
TurnoutFromJson(json) ==
  LET address == U16(json.address)
      calc == calculateTurnoutBoardAddressAndIndex(address)
  IN [id |-> U16(json.id),
      address |-> address,
      index |-> IF json.subAddress = -1 THEN calc.boardIndex ELSE U8(json.subAddress),
      boardAddress |-> IF json.subAddress = -1 THEN calc.boardAddress ELSE 0,
      thrown |-> json.state,
      orientation |-> json.orientation]

\* update that also resets the thrown state
update_resetsThrown(t, address, index, orientation) ==
  LET calc == calculateTurnoutBoardAddressAndIndex(address)
  IN [t EXCEPT !.address = address,
               !.index = IF index = -1 THEN calc.boardIndex ELSE U8(index),
               !.orientation = orientation,
               !.boardAddress = IF index = -1 THEN calc.boardAddress ELSE @,
               !.thrown = FALSE]

\* Turnout::update(address, index, orientation)
update(t, address, index, orientation) ==
  LET calc == calculateTurnoutBoardAddressAndIndex(address)
  IN [t EXCEPT !.address = address,
               !.index = IF index = -1 THEN calc.boardIndex ELSE U8(index),
               !.orientation = orientation,
               !.boardAddress = IF index = -1 THEN calc.boardAddress ELSE @]

\* toJson that never writes the state node
toJson_stateDropped(t) ==
  [id |-> t.id,
   address |-> t.address,
   boardAddress |-> t.boardAddress,
   subAddress |-> IF t.boardAddress # 0 THEN -1 ELSE t.index,
   state |-> FALSE,
   orientation |-> t.orientation]

\* toJson that writes the cached index whatever the boardAddress
toJson_reportsIndex(t) ==
  [id |-> t.id,
   address |-> t.address,
   boardAddress |-> t.boardAddress,
   subAddress |-> t.index,
   state |-> t.thrown,
   orientation |-> t.orientation]

\* Turnout::toJson(json, readableStrings = false)
toJson(t) ==
  [id |-> t.id,
   address |-> t.address,
   boardAddress |-> t.boardAddress,
   subAddress |-> IF t.boardAddress # 0 THEN -1 ELSE t.index,
   state |-> t.thrown,
   orientation |-> t.orientation]

\* Turnout::toJson(json, readableStrings = true)
toJsonReadable(t) ==
  [id |-> t.id,
   address |-> t.address,
   boardAddress |-> t.boardAddress,
   subAddress |-> IF t.boardAddress # 0 THEN -1 ELSE t.index,
   state |-> IF t.thrown THEN "THROWN" ELSE "CLOSED",
   orientation |-> t.orientation]

\* set that sends the packet only when the state changes
TurnoutSet_onlyOnChange(t, thrown, sendDCCPacket) ==
  LET args == <<IF t.boardAddress # 0 THEN String(t.boardAddress)
                ELSE String(t.address),
                String(t.index),
                String(BoolInt(thrown))>>
  IN [turnout |-> [t EXCEPT !.thrown = thrown],
      events |-> (IF sendDCCPacket /\ thrown # t.thrown
                  THEN AccessoryCommandProcess(args) ELSE <<>>)
                   \o <<HEvent(<<t.id, BoolInt(thrown)>>)>>]

\* set that flips the state instead of assigning it
TurnoutSet_flips(t, thrown, sendDCCPacket) ==
  LET args == <<IF t.boardAddress # 0 THEN String(t.boardAddress)
                ELSE String(t.address),
                String(t.index),
                String(BoolInt(thrown))>>
  IN [turnout |-> [t EXCEPT !.thrown = ~t.thrown],
      events |-> (IF sendDCCPacket THEN AccessoryCommandProcess(args) ELSE <<>>)
                   \o <<HEvent(<<t.id, BoolInt(thrown)>>)>>]

\* Turnout::set(thrown, sendDCCPacket): the turnout after the call, and the
\* events of the call in order
TurnoutSet(t, thrown, sendDCCPacket) ==
  LET args == <<IF t.boardAddress # 0 THEN String(t.boardAddress)
                ELSE String(t.address),
                String(t.index),
                String(BoolInt(thrown))>>
  IN [turnout |-> [t EXCEPT !.thrown = thrown],
      events |-> (IF sendDCCPacket THEN AccessoryCommandProcess(args) ELSE <<>>)
                   \o <<HEvent(<<t.id, BoolInt(thrown)>>)>>]

\* Turnout::showStatus
TurnoutShowStatus(t) ==
  HEvent(<<t.id, t.address, t.index, BoolInt(t.thrown)>>)

(***************************************************************************)
(* State.                                                                  *)
(***************************************************************************)
VARIABLES
  turnouts,   \* LinkedList<Turnout *> turnouts, in insertion order
  doc,        \* the document stored under TURNOUTS_JSON_FILE
  lastOp,     \* the operation that ran last: [name, args]
  ret,        \* its return value (bool as 0/1, void as -1)
  events,     \* the packets it queued and the lines it sent, in order
  before,     \* the registry and the document as they were before it
  prevOp,     \* the name of the operation that ran before it
  nops,       \* operations run since power-on of the model
  scan        \* per execution context: the registry operation it is inside

vars == <<turnouts, doc, lastOp, ret, events, before, prevOp, nops, scan>>

\* a document that was never stored: no count node, no turnouts node
NoDocument == [hasCount |-> FALSE, count |-> 0, turnouts |-> <<>>]

(***************************************************************************)
(* Helpers over the list.                                                  *)
(***************************************************************************)
RECURSIVE Flatten(_)
Flatten(ss) == IF Len(ss) = 0 THEN <<>> ELSE Head(ss) \o Flatten(Tail(ss))

RemoveAt(s, i) == SubSeq(s, 1, i - 1) \o SubSeq(s, i + 1, Len(s))

\* the execution contexts that call into the registry
Tasks == {1, 2}

\* a context outside every registry operation
NoScan == [op |-> "idle", args |-> <<>>, found |-> 0, dangling |-> FALSE, seen |-> <<>>]

\* bookkeeping shared by every step
RecordStep(name, args, r, ev) ==
  /\ nops < MaxOps
  /\ nops' = nops + 1
  /\ lastOp' = [name |-> name, args |-> args]
  /\ ret' = r
  /\ events' = ev
  /\ before' = [turnouts |-> turnouts, doc |-> doc]
  /\ prevOp' = lastOp.name

\* bookkeeping of an operation that runs from call to return in one step
Record(name, args, r, ev) ==
  /\ RecordStep(name, args, r, ev)
  /\ scan' = scan

(***************************************************************************)
(* TurnoutManager                                                          *)
(***************************************************************************)
\* the list after TurnoutManager::init() ran on list ts with document d
initLoad(ts, d) ==
  LET turnoutCount == IF d.hasCount THEN U16(d.count) ELSE 0
  IN IF turnoutCount > 0 THEN ts \o [i \in 1..Len(d.turnouts) |-> TurnoutFromJson(d.turnouts[i])] ELSE ts

\* store that writes the count node before the loop has counted
storeDocument_countBeforeLoop(ts) ==
  [hasCount |-> TRUE, count |-> 0, turnouts |-> [i \in 1..Len(ts) |-> toJson(ts[i])]]

\* the document TurnoutManager::store() writes for list ts
storeDocument(ts) ==
  [hasCount |-> TRUE, count |-> U16(Len(ts)), turnouts |-> [i \in 1..Len(ts) |-> toJson(ts[i])]]

\* TurnoutManager::init()
init ==
  /\ Len(turnouts) + Len(doc.turnouts) <= MaxTurnouts
  /\ Record("init", <<>>, -1, <<>>)
  /\ turnouts' = initLoad(turnouts, doc)
  /\ UNCHANGED doc

\* power cycle: the list in RAM is lost, the stored document survives, and
\* start-up runs TurnoutManager::init()
PowerCycle ==
  /\ Record("PowerCycle", <<>>, -1, <<>>)
  /\ turnouts' = initLoad(<<>>, doc)
  /\ UNCHANGED doc

\* TurnoutManager::store()
store ==
  /\ Record("store", <<>>, U16(Len(turnouts)), <<>>)
  /\ doc' = storeDocument(turnouts)
  /\ UNCHANGED turnouts

\* TurnoutManager::clear()
clear ==
  /\ Record("clear", <<>>, -1, <<>>)
  /\ turnouts' = <<>>
  /\ doc' = storeDocument(<<>>)

\* set whose found flag starts out true
setAll_foundAlways(ts, turnoutID, thrown) ==
  [turnouts |-> [i \in 1..Len(ts) |->
                   IF ts[i].id = turnoutID
                   THEN TurnoutSet(ts[i], thrown, TRUE).turnout ELSE ts[i]],
   events |-> Flatten([i \in 1..Len(ts) |->
                   IF ts[i].id = turnoutID
                   THEN TurnoutSet(ts[i], thrown, TRUE).events ELSE <<>>]),
   found |-> TRUE]

\* set whose loop does not compare ids
setAll_everyTurnout(ts, turnoutID, thrown) ==
  [turnouts |-> [i \in 1..Len(ts) |-> TurnoutSet(ts[i], thrown, TRUE).turnout],
   events |-> Flatten([i \in 1..Len(ts) |-> TurnoutSet(ts[i], thrown, TRUE).events]),
   found |-> \E i \in 1..Len(ts) : ts[i].id = turnoutID]

\* the effect of the loop of TurnoutManager::set on list ts
setAll(ts, turnoutID, thrown) ==
  [turnouts |-> [i \in 1..Len(ts) |->
                   IF ts[i].id = turnoutID
                   THEN TurnoutSet(ts[i], thrown, TRUE).turnout ELSE ts[i]],
   events |-> Flatten([i \in 1..Len(ts) |->
                   IF ts[i].id = turnoutID
                   THEN TurnoutSet(ts[i], thrown, TRUE).events ELSE <<>>]),
   found |-> \E i \in 1..Len(ts) : ts[i].id = turnoutID]

\* toggle that throws the turnout instead of negating its state
toggleAll_alwaysThrows(ts, turnoutID) ==
  [turnouts |-> [i \in 1..Len(ts) |->
                   IF ts[i].id = turnoutID
                   THEN TurnoutSet(ts[i], TRUE, TRUE).turnout ELSE ts[i]],
   events |-> Flatten([i \in 1..Len(ts) |->
                   IF ts[i].id = turnoutID
                   THEN TurnoutSet(ts[i], TRUE, TRUE).events ELSE <<>>]),
   found |-> \E i \in 1..Len(ts) : ts[i].id = turnoutID]

\* the effect of the loop of TurnoutManager::toggle on list ts
toggleAll(ts, turnoutID) ==
  [turnouts |-> [i \in 1..Len(ts) |->
                   IF ts[i].id = turnoutID
                   THEN TurnoutSet(ts[i], ~ts[i].thrown, TRUE).turnout ELSE ts[i]],
   events |-> Flatten([i \in 1..Len(ts) |->
                   IF ts[i].id = turnoutID
                   THEN TurnoutSet(ts[i], ~ts[i].thrown, TRUE).events ELSE <<>>]),
   found |-> \E i \in 1..Len(ts) : ts[i].id = turnoutID]

\* TurnoutManager::set(turnoutID, thrown)
set(turnoutID, thrown) ==
  LET r == setAll(turnouts, turnoutID, thrown)
  IN /\ Record("set", <<turnoutID, BoolInt(thrown)>>, BoolInt(r.found), r.events)
     /\ turnouts' = r.turnouts
     /\ UNCHANGED doc

\* TurnoutManager::toggle(turnoutID)
toggle(turnoutID) ==
  LET r == toggleAll(turnouts, turnoutID)
  IN /\ Record("toggle", <<turnoutID>>, BoolInt(r.found), r.events)
     /\ turnouts' = r.turnouts
     /\ UNCHANGED doc

\* createOrUpdate that never looks for an existing turnout
createOrUpdateList_alwaysAppends(ts, id, address, index, orientation) ==
  Append(ts, Turnout(id, address, index, FALSE, orientation))

\* the list after TurnoutManager::createOrUpdate(id, address, index, orientation)
createOrUpdateList(ts, id, address, index, orientation) ==
  LET hits == {i \in 1..Len(ts) : ts[i].id = id}
  IN IF hits # {}
     THEN LET first == CHOOSE i \in hits : \A j \in hits : i <= j
          IN [ts EXCEPT ![first] = update(ts[first], address, index, orientation)]
     ELSE Append(ts, Turnout(id, address, index, FALSE, orientation))

\* TurnoutManager::createOrUpdate(id, address, index, orientation)
createOrUpdate(id, address, index, orientation) ==
  /\ Record("createOrUpdate", <<id, address, index, orientation>>, -1, <<>>)
  /\ turnouts' = createOrUpdateList(turnouts, id, address, index, orientation)
  /\ UNCHANGED doc

\* remove that unlinks the head of the list when the id is found
removeList_removesHead(ts, id) ==
  LET hits == {i \in 1..Len(ts) : ts[i].id = id}
  IN IF hits # {} THEN Tail(ts) ELSE ts

\* the list after TurnoutManager::remove(id): the last match is the one removed
removeList(ts, id) ==
  LET hits == {i \in 1..Len(ts) : ts[i].id = id}
  IN IF hits # {}
     THEN RemoveAt(ts, CHOOSE i \in hits : \A j \in hits : j <= i)
     ELSE ts

\* TurnoutManager::remove(id)
remove(id) ==
  /\ Record("remove", <<id>>,
            BoolInt(\E i \in 1..Len(turnouts) : turnouts[i].id = id), <<>>)
  /\ turnouts' = removeList(turnouts, id)
  /\ UNCHANGED doc

\* TurnoutManager::showStatus(): one status line per turnout
showStatus(ts) == [i \in 1..Len(ts) |-> TurnoutShowStatus(ts[i])]

(***************************************************************************)
(* TurnoutCommandAdapter::process(arguments): the <T ...> command.         *)
(***************************************************************************)
TurnoutCommandEffect(ts, arguments) ==
  IF Len(arguments) = 0
  THEN [turnouts |-> ts, events |-> showStatus(ts)]
  ELSE LET turnoutID == U16(toInt(arguments[1]))
           found == \E i \in 1..Len(ts) : ts[i].id = turnoutID
       IN IF Len(arguments) = 1 /\ found
          THEN [turnouts |-> removeList(ts, turnoutID),
                events |-> <<COMMAND_SUCCESSFUL_RESPONSE>>]
          ELSE IF Len(arguments) = 2 /\ found
          THEN LET r == setAll(ts, turnoutID, toInt(arguments[2]) = 1)
               IN [turnouts |-> r.turnouts, events |-> r.events]
          ELSE IF Len(arguments) = 3
          THEN [turnouts |-> createOrUpdateList(ts, turnoutID,
                               U16(toInt(arguments[2])), I8(toInt(arguments[3])), DefaultOrientation),
                events |-> <<COMMAND_SUCCESSFUL_RESPONSE>>]
          ELSE [turnouts |-> ts, events |-> <<COMMAND_FAILED_RESPONSE>>]

TurnoutCommandAdapterProcess(arguments) ==
  LET r == TurnoutCommandEffect(turnouts, arguments)
  IN /\ Record("T", [i \in 1..Len(arguments) |-> toInt(arguments[i])], -1, r.events)
     /\ turnouts' = r.turnouts
     /\ UNCHANGED doc

\* the argument lists the protocol front-end hands to the adapter
CommandArguments ==
  {<<>>}
  \cup {<<String(id)>> : id \in CommandIDs}
  \cup {<<String(id), String(t)>> : id \in CommandIDs, t \in {0, 1}}
  \cup {<<String(id), String(a), String(i)>> :
          id \in CommandIDs, a \in CommandAddresses, i \in Indexes}
  \cup {<<String(id), String(a), String(i), String(1)>> :
          id \in CommandIDs, a \in CommandAddresses, i \in {2}}

(***************************************************************************)
(* The lookups.  A Turnout * is modelled by the position in the list of    *)
(* the turnout it points to, nullptr by 0.                                 *)
(***************************************************************************)
\* the largest of a non-empty set of positions, 0 for the empty set
LastOf(hits) == IF hits = {} THEN 0 ELSE CHOOSE i \in hits : \A j \in hits : j <= i

\* TurnoutManager::getTurnoutByIndex(index): retval is assigned at the
\* position whose zero-based count equals index
getTurnoutByIndex(ts, index) == LastOf({i \in 1..Len(ts) : i - 1 = index})

\* TurnoutManager::getTurnoutByID(id): retval is assigned at every match and
\* the loop runs to the end
getTurnoutByID(ts, id) == LastOf({i \in 1..Len(ts) : ts[i].id = id})

\* TurnoutManager::getTurnoutByAddress(address): as getTurnoutByID
getTurnoutByAddress(ts, address) == LastOf({i \in 1..Len(ts) : ts[i].address = address})

\* the positions a caller asks getTurnoutByIndex for
Positions == 0..1

getTurnoutByIndexCall(index) ==
  /\ Record("getTurnoutByIndex", <<index>>, getTurnoutByIndex(turnouts, index), <<>>)
  /\ UNCHANGED <<turnouts, doc>>

getTurnoutByIDCall(id) ==
  /\ Record("getTurnoutByID", <<id>>, getTurnoutByID(turnouts, id), <<>>)
  /\ UNCHANGED <<turnouts, doc>>

getTurnoutByAddressCall(address) ==
  /\ Record("getTurnoutByAddress", <<address>>, getTurnoutByAddress(turnouts, address), <<>>)
  /\ UNCHANGED <<turnouts, doc>>

(***************************************************************************)
(* Two execution contexts inside the registry.  Nothing in the file takes  *)
(* a lock, so a context can be pre-empted between the loop that finds a    *)
(* turnout and the statement that changes the list.  Each of createOrUpdate*)
(* and remove is split there: the scan step runs the loop and keeps the    *)
(* pointer it found (a position, 0 for none), the finish step changes the  *)
(* list through that pointer.                                              *)
(***************************************************************************)
\* the first position of ts holding id, 0 for none: where the loop of
\* createOrUpdate stops
FirstMatch(ts, id) ==
  LET hits == {i \in 1..Len(ts) : ts[i].id = id}
  IN IF hits = {} THEN 0 ELSE CHOOSE i \in hits : \A j \in hits : i <= j

\* the pointers the other contexts hold after the turnout at position k was
\* unlinked and deleted by task: a pointer to it dangles, a pointer to a
\* later turnout now finds it one position earlier
AfterUnlink(sc, task, k) ==
  [t \in Tasks |->
     IF t = task \/ sc[t].op = "idle" \/ sc[t].found = 0 \/ sc[t].dangling \/ k = 0
     THEN sc[t]
     ELSE IF sc[t].found = k THEN [sc[t] EXCEPT !.dangling = TRUE]
     ELSE IF sc[t].found > k THEN [sc[t] EXCEPT !.found = sc[t].found - 1]
     ELSE sc[t]]

\* what a dangling Turnout * can reach: no live turnout (0), or the turnout
\* that now occupies the freed block
DanglingTargets(ts) == 0..Len(ts)

\* createOrUpdate up to the end of its loop
createOrUpdateScan(task, id, address, index, orientation) ==
  /\ RecordStep("createOrUpdate.scan", <<task, id, address, index, orientation>>, -1, <<>>)
  /\ scan[task].op = "idle"
  /\ scan' = [scan EXCEPT ![task] =
                [op |-> "createOrUpdate", args |-> <<id, address, index, orientation>>,
                 found |-> FirstMatch(turnouts, id), dangling |-> FALSE, seen |-> turnouts]]
  /\ UNCHANGED <<turnouts, doc>>

\* createOrUpdate from there: turnout->update(...) or turnouts.add(new Turnout(...))
createOrUpdateFinish(task) ==
  LET s == scan[task]
      a == s.args
  IN /\ RecordStep("createOrUpdate.finish", <<task>> \o a, -1, <<>>)
     /\ s.op = "createOrUpdate"
     /\ IF s.found = 0
        THEN turnouts' = Append(turnouts, Turnout(a[1], a[2], a[3], FALSE, a[4]))
        ELSE IF ~s.dangling
        THEN turnouts' = [turnouts EXCEPT ![s.found] = update(@, a[2], a[3], a[4])]
        ELSE \E k \in DanglingTargets(turnouts) :
               turnouts' = IF k = 0 THEN turnouts
                           ELSE [turnouts EXCEPT ![k] = update(@, a[2], a[3], a[4])]
     /\ scan' = [scan EXCEPT ![task].op = "idle"]
     /\ UNCHANGED doc

\* remove up to the end of its loop
removeScan(task, id) ==
  /\ RecordStep("remove.scan", <<task, id>>, -1, <<>>)
  /\ scan[task].op = "idle"
  /\ scan' = [scan EXCEPT ![task] =
                [op |-> "remove", args |-> <<id>>,
                 found |-> getTurnoutByID(turnouts, id), dangling |-> FALSE, seen |-> turnouts]]
  /\ UNCHANGED <<turnouts, doc>>

\* remove from there: turnouts.remove(turnoutToRemoved), which deletes it
removeFinish(task) ==
  LET s == scan[task]
  IN /\ RecordStep("remove.finish", <<task>> \o s.args, BoolInt(s.found # 0), <<>>)
     /\ s.op = "remove"
     /\ \E k \in (IF s.found = 0 THEN {0}
                  ELSE IF ~s.dangling THEN {s.found}
                  ELSE DanglingTargets(turnouts)) :
          /\ turnouts' = IF k = 0 THEN turnouts ELSE RemoveAt(turnouts, k)
          /\ scan' = [AfterUnlink(scan, task, k) EXCEPT ![task].op = "idle"]
     /\ UNCHANGED doc

(***************************************************************************)
(* The <a ADDRESS SUBADDRESS ACTIVATE> command: AccessoryCommand::process  *)
(* called on its own.                                                      *)
(***************************************************************************)
AccessoryAddresses == {0, 1, 3, 63, 64, 65, 100, 511, 512, 2044, 65535}
AccessoryIndexes == {0, 1, 2, 3, 4, 255}

AccessoryCommand(address, index, activate) ==
  /\ Record("a", <<address, index, activate>>, -1,
            AccessoryCommandProcess(<<String(address), String(index), String(activate)>>))
  /\ UNCHANGED <<turnouts, doc>>

(***************************************************************************)
(* calculateTurnoutBoardAddressAndIndex applied to a decoder address; its  *)
(* two out-parameters are the event of the call.                           *)
(***************************************************************************)
\* the largest board address (ADDRESS 0-511); four decoder addresses a board
MaxBoardAddress == 511
DecoderAddresses == 1..(MaxBoardAddress * 4)

calculateCall(address) ==
  LET r == calculateTurnoutBoardAddressAndIndex(address)
  IN /\ Record("calculateTurnoutBoardAddressAndIndex", <<address>>, -1,
               <<[kind |-> "out", args |-> <<r.boardAddress, r.boardIndex>>]>>)
     /\ UNCHANGED <<turnouts, doc>>

(***************************************************************************)
(* Specifications.                                                         *)
(***************************************************************************)
Init ==
  /\ turnouts = <<>>
  /\ doc = NoDocument
  /\ lastOp = [name |-> "boot", args |-> <<>>]
  /\ ret = -1
  /\ events = <<>>
  /\ before = [turnouts |-> <<>>, doc |-> NoDocument]
  /\ prevOp = "boot"
  /\ nops = 0
  /\ scan = [task \in Tasks |-> NoScan]

Next ==
  \/ PowerCycle
  \/ store
  \/ clear
  \/ \E id \in IDs, thrown \in BOOLEAN : set(id, thrown)
  \/ \E id \in IDs : toggle(id)
  \/ \E id \in IDs, a \in Addresses, i \in Indexes, o \in Orientations :
       createOrUpdate(id, a, i, o)
  \/ \E id \in IDs : remove(id)
  \/ \E arguments \in CommandArguments : TurnoutCommandAdapterProcess(arguments)

\* the firmware: init() runs at start-up only
Spec == Init /\ [][Next]_vars

\* the public interface: init() may also be called on a live registry
NextApi == Next \/ init
SpecApi == Init /\ [][NextApi]_vars

\* createOrUpdate calls only, from the empty registry
NextCreate ==
  \E id \in IDs, a \in Addresses, i \in Indexes, o \in Orientations :
    createOrUpdate(id, a, i, o)
SpecCreate == Init /\ [][NextCreate]_vars

\* the accessory command alone
NextAccessory ==
  \E address \in AccessoryAddresses, index \in AccessoryIndexes, activate \in {0, 1} :
    AccessoryCommand(address, index, activate)
SpecAccessory == Init /\ [][NextAccessory]_vars

\* the address mapper alone, applied once to each decoder address
NextMapper ==
  /\ nops = 0
  /\ \E address \in DecoderAddresses : calculateCall(address)
SpecMapper == Init /\ [][NextMapper]_vars

\* the registry interface without start-up: configuration, state changes,
\* store and the lookups
NextQuery ==
  \/ store
  \/ \E id \in IDs, thrown \in BOOLEAN : set(id, thrown)
  \/ \E id \in IDs : toggle(id)
  \/ \E id \in IDs, a \in Addresses, i \in Indexes, o \in Orientations :
       createOrUpdate(id, a, i, o)
  \/ \E id \in IDs : remove(id)
  \/ \E index \in Positions : getTurnoutByIndexCall(index)
  \/ \E id \in IDs : getTurnoutByIDCall(id)
  \/ \E a \in Addresses : getTurnoutByAddressCall(a)
SpecQuery == Init /\ [][NextQuery]_vars

\* two contexts calling createOrUpdate and remove, on a registry that is
\* empty or already holds one turnout
InitConcurrent ==
  /\ turnouts \in {<<>>, <<Turnout(7, 20, -1, FALSE, WYE)>>}
  /\ doc = NoDocument
  /\ lastOp = [name |-> "boot", args |-> <<>>]
  /\ ret = -1
  /\ events = <<>>
  /\ before = [turnouts |-> turnouts, doc |-> NoDocument]
  /\ prevOp = "boot"
  /\ nops = 0
  /\ scan = [task \in Tasks |-> NoScan]

NextConcurrent ==
  \/ \E task \in Tasks, id \in IDs, a \in Addresses, i \in Indexes, o \in Orientations :
       createOrUpdateScan(task, id, a, i, o)
  \/ \E task \in Tasks : createOrUpdateFinish(task)
  \/ \E task \in Tasks, id \in IDs : removeScan(task, id)
  \/ \E task \in Tasks : removeFinish(task)
SpecConcurrent == InitConcurrent /\ [][NextConcurrent]_vars

(***************************************************************************)
(* Vocabulary of the properties.                                           *)
(***************************************************************************)
IdsOf(ts) == {ts[i].id : i \in 1..Len(ts)}
WithId(ts, id) == {i \in 1..Len(ts) : ts[i].id = id}
FirstWithId(ts, id) == CHOOSE i \in WithId(ts, id) : \A j \in WithId(ts, id) : i <= j

\* what a client is told about a turnout: the fields of its serialized record
\* other than the derived boardAddress
Reported(t) ==
  [id |-> t.id, address |-> t.address,
   subAddress |-> IF t.boardAddress # 0 THEN -1 ELSE t.index,
   orientation |-> t.orientation, thrown |-> t.thrown]

\* the two bytes of the accessory packet for (address, index, activate)
PacketBytes(address, index, activate) ==
  <<128 + (address % 64),
    BitXor((((address \div 64) % 8) * 16) + ((index % 4) * 2) + activate, 248, 8)>>

\* what one Turnout::set(thrown) of turnout t must produce, in order
SetEventsOf(t, thrown) ==
  <<[kind |-> "packet",
     args |-> PacketBytes(IF t.boardAddress # 0 THEN t.boardAddress ELSE t.address,
                          t.index, BoolInt(thrown)) \o <<1>>],
    [kind |-> "H", args |-> <<t.id, BoolInt(thrown)>>]>>

C2_BoardAddressOnlyWhenDerived ==
  [][/\ (lastOp'.name = "createOrUpdate" /\ lastOp'.args[3] # -1)
          => LET t == turnouts'[FirstWithId(turnouts', lastOp'.args[1])]
             IN /\ t.boardAddress = 0
                /\ t.address = lastOp'.args[2]
                /\ t.index = lastOp'.args[3]
     /\ (/\ lastOp.name = "createOrUpdate" /\ lastOp.args[3] # -1
         /\ lastOp'.name = "set" /\ lastOp'.args[1] = lastOp.args[1])
          => events'[1] =
               [kind |-> "packet",
                args |-> PacketBytes(lastOp.args[2], lastOp.args[3], lastOp'.args[2])
                           \o <<1>>]]_vars

(***************************************************************************)
(* C3                                                                      *)
(***************************************************************************)
\* C3: from the empty registry, after any sequence of createOrUpdate calls no
\* two turnouts share an id and the registry holds exactly one turnout per
\* distinct id passed.
C3_RegistryUniqueness ==
  /\ Len(turnouts) = Cardinality(IdsOf(turnouts))
  /\ IdsOf(turnouts) =
       IdsOf(before.turnouts)
         \cup (IF lastOp.name = "createOrUpdate" THEN {lastOp.args[1]} ELSE {})

C3_Witness ==
  /\ lastOp.name = "createOrUpdate"
  /\ Len(turnouts) = 2
  /\ Len(before.turnouts) = 2

(***************************************************************************)
(* C4                                                                      *)
(***************************************************************************)
\* C4: every Turnout::set(thrown) with sendPacket true, whether or not the
\* state changes, queues exactly one accessory packet computed from
\* (boardAddress if non-zero else address, index, thrown) and then sends
\* exactly one <H id thrown>; createOrUpdate(5, 10, -1) gives boardAddress 3
\* and index 1, and set(5, true) then queues the packet for (3, 1, true) and
\* sends <H 5 1>.
C4_SetQueuesPacketThenBroadcasts ==
  LET b == before.turnouts
      expected(newThrown(_), id) ==
        Flatten([i \in 1..Len(b) |->
                   IF b[i].id = id THEN SetEventsOf(b[i], newThrown(b[i])) ELSE <<>>])
      asGiven(t) == lastOp.args[2] = 1
      negated(t) == ~t.thrown
  IN /\ lastOp.name = "set" => events = expected(asGiven, lastOp.args[1])
     /\ lastOp.name = "toggle" => events = expected(negated, lastOp.args[1])
     /\ (lastOp.name = "T" /\ Len(lastOp.args) = 2 /\ lastOp.args[1] \in IdsOf(b))
          => events = expected(asGiven, lastOp.args[1])
     /\ (lastOp.name = "createOrUpdate" /\ lastOp.args[2] = 10 /\ lastOp.args[3] = -1)
          => LET t == turnouts[FirstWithId(turnouts, lastOp.args[1])]
             IN t.boardAddress = 3 /\ t.index = 1
     /\ (/\ lastOp = [name |-> "set", args |-> <<5, 1>>]
         /\ Cardinality(WithId(b, 5)) = 1
         /\ b[FirstWithId(b, 5)].boardAddress = 3
         /\ b[FirstWithId(b, 5)].index = 1)
          => events = <<[kind |-> "packet", args |-> <<131, 251, 1>>],
                        [kind |-> "H", args |-> <<5, 1>>]>>

C4_Witness ==
  /\ lastOp = [name |-> "set", args |-> <<5, 1>>]
  /\ Cardinality(WithId(before.turnouts, 5)) = 1
  /\ before.turnouts[FirstWithId(before.turnouts, 5)].boardAddress = 3
  /\ before.turnouts[FirstWithId(before.turnouts, 5)].thrown
  /\ events = <<[kind |-> "packet", args |-> <<131, 251, 1>>],
                [kind |-> "H", args |-> <<5, 1>>]>>

(***************************************************************************)
(* C5                                                                      *)
(***************************************************************************)
\* C5: after set(id, thrown) of an existing turnout followed by a power cycle,
\* the reloaded turnout has the thrown value that was last set.
C5_DirectionRetainedWithoutPower ==
  [][(/\ lastOp.name = "set" /\ ret = 1
      /\ \E k \in 1..Len(doc.turnouts) : doc.turnouts[k].id = lastOp.args[1]
      /\ lastOp'.name = "PowerCycle")
       => /\ WithId(turnouts', lastOp.args[1]) # {}
          /\ \A i \in WithId(turnouts', lastOp.args[1]) :
               BoolInt(turnouts'[i].thrown) = lastOp.args[2]]_vars

(***************************************************************************)
(* C6                                                                      *)
(***************************************************************************)
\* C6: createOrUpdate(id, address, index, orientation) on an existing id
\* changes only that turnout's addressing and orientation and leaves its
\* thrown state, the registry size and the order untouched; otherwise it
\* appends one new turnout with thrown = false. A second call with identical
\* arguments leaves the registry exactly as after the first call.
C6_CreateOrUpdate ==
  [][/\ lastOp'.name = "createOrUpdate"
          => LET id == lastOp'.args[1]
                 address == lastOp'.args[2]
                 orientation == lastOp'.args[4]
             IN IF WithId(turnouts, id) # {}
                THEN LET k == FirstWithId(turnouts, id)
                     IN /\ Len(turnouts') = Len(turnouts)
                        /\ \A i \in 1..Len(turnouts) : i # k => turnouts'[i] = turnouts[i]
                        /\ turnouts'[k].id = id
                        /\ turnouts'[k].thrown = turnouts[k].thrown
                        /\ turnouts'[k].address = address
                        /\ turnouts'[k].orientation = orientation
                ELSE /\ Len(turnouts') = Len(turnouts) + 1
                     /\ SubSeq(turnouts', 1, Len(turnouts)) = turnouts
                     /\ turnouts'[Len(turnouts')].id = id
                     /\ turnouts'[Len(turnouts')].thrown = FALSE
                     /\ turnouts'[Len(turnouts')].address = address
                     /\ turnouts'[Len(turnouts')].orientation = orientation
     /\ (lastOp.name = "createOrUpdate" /\ lastOp' = lastOp)
          => turnouts' = turnouts /\ doc' = doc]_vars

C6_Witness ==
  /\ lastOp.name = "createOrUpdate"
  /\ prevOp = "createOrUpdate"
  /\ turnouts = before.turnouts
  /\ Len(turnouts) = 2
  /\ \E i \in WithId(turnouts, lastOp.args[1]) : turnouts[i].thrown

(***************************************************************************)
(* C7                                                                      *)
(***************************************************************************)
\* C7: remove, set and toggle called with an id that no turnout has return
\* false, leave the registry and the stored document unchanged, queue no
\* packet and send no <H ...>; through the T command (T id, T id thrown) the
\* reply is <X>.
C7_NotFound ==
  LET missing == lastOp.args[1] \notin IdsOf(before.turnouts)
      untouched == turnouts = before.turnouts /\ doc = before.doc
  IN /\ (lastOp.name \in {"remove", "set", "toggle"} /\ missing)
          => ret = 0 /\ untouched /\ events = <<>>
     /\ (lastOp.name = "T" /\ Len(lastOp.args) \in {1, 2} /\ missing)
          => untouched /\ events = <<[kind |-> "X", args |-> <<>>]>>

C7_Witness ==
  /\ lastOp.name = "T"
  /\ Len(lastOp.args) = 2
  /\ events = <<[kind |-> "X", args |-> <<>>]>>
  /\ Len(turnouts) >= 1
  /\ prevOp \in {"remove", "set", "toggle"}
  /\ before.turnouts = turnouts

(***************************************************************************)
(* C8                                                                      *)
(***************************************************************************)
\* C8: the list command T with no arguments replies with one
\* <H id address subaddress thrown> line per turnout in insertion order when
\* turnouts exist, and replies <X> when no turnouts are defined.
C8_ListReplies ==
  (lastOp.name = "T" /\ Len(lastOp.args) = 0)
    => IF Len(before.turnouts) = 0
       THEN events = <<[kind |-> "X", args |-> <<>>]>>
       ELSE /\ Len(events) = Len(before.turnouts)
            /\ \A i \in 1..Len(events) :
                 /\ events[i].kind = "H"
                 /\ Len(events[i].args) = 4
                 /\ events[i].args[1] = before.turnouts[i].id
                 /\ events[i].args[2] = before.turnouts[i].address
                 /\ events[i].args[4] = BoolInt(before.turnouts[i].thrown)

(***************************************************************************)
(* C9                                                                      *)
(***************************************************************************)
\* C9 (as stated): if a turnout's boardAddress # 0, every externally reported
\* sub-address of it is -1: in the serialized record, readable and machine
\* form, and in the status line.
C9_ReportedSubAddress ==
  /\ \A i \in 1..Len(turnouts) :
       turnouts[i].boardAddress # 0
         => /\ toJson(turnouts[i]).subAddress = -1
            /\ toJsonReadable(turnouts[i]).subAddress = -1
  /\ (lastOp.name = "T" /\ Len(lastOp.args) = 0)
       => \A i \in 1..Len(events) :
            before.turnouts[i].boardAddress # 0 => events[i].args[3] = -1

\* C9 (amended): if a turnout's boardAddress # 0, the sub-address in its
\* serialized record (toJson, readable and machine form, and so in the stored
\* document) is -1 regardless of the cached index; the status line
\* (showStatus) reports the cached index.
C9_SerializedSubAddress ==
  /\ \A i \in 1..Len(turnouts) :
       turnouts[i].boardAddress # 0
         => /\ toJson(turnouts[i]).subAddress = -1
            /\ toJsonReadable(turnouts[i]).subAddress = -1
  /\ lastOp.name = "store"
       => /\ Len(doc.turnouts) = Len(turnouts)
          /\ \A i \in 1..Len(turnouts) :
               turnouts[i].boardAddress # 0 => doc.turnouts[i].subAddress = -1
  /\ (lastOp.name = "T" /\ Len(lastOp.args) = 0)
       => /\ Len(events) = Len(before.turnouts)
          /\ \A i \in 1..Len(events) :
               events[i].args[3] = before.turnouts[i].index

C9_Witness ==
  /\ lastOp.name = "store"
  /\ \E i \in 1..Len(turnouts) :
       /\ turnouts[i].boardAddress = 3
       /\ turnouts[i].index = 2
       /\ doc.turnouts[i].subAddress = -1

(***************************************************************************)
(* C10                                                                     *)
(***************************************************************************)
\* C10: set(id, true) twice on an existing turnout leaves it thrown, each call
\* queues one packet and sends one <H id 1>, and the registry and the stored
\* document are the same after the first and after the second call.
C10_SetTwice ==
  [][(/\ lastOp.name = "set" /\ lastOp.args[2] = 1 /\ ret = 1
      /\ lastOp' = lastOp)
       => LET id == lastOp.args[1]
              oneEach(ev) ==
                /\ Len(ev) = 2
                /\ ev[1].kind = "packet"
                /\ ev[2] = [kind |-> "H", args |-> <<id, 1>>]
          IN /\ ret' = 1
             /\ turnouts' = turnouts
             /\ doc' = doc
             /\ \A i \in WithId(turnouts', id) : turnouts'[i].thrown
             /\ oneEach(events)
             /\ oneEach(events')]_vars

C10_Witness ==
  /\ lastOp.name = "set"
  /\ lastOp.args[2] = 1
  /\ ret = 1
  /\ prevOp = "set"
  /\ turnouts = before.turnouts
  /\ Len(events) = 2
  /\ doc.hasCount

(***************************************************************************)
(* C11                                                                     *)
(***************************************************************************)
\* C11: toggle(id) on an existing turnout sets thrown to its negation, and
\* toggle(id) called twice returns the turnout to its original thrown state
\* with every other field and every other turnout unchanged.
C11_ToggleTwice ==
  [][/\ (lastOp'.name = "toggle" /\ ret' = 1)
          => /\ Len(turnouts') = Len(turnouts)
             /\ \A i \in 1..Len(turnouts) :
                  turnouts'[i] =
                    IF turnouts[i].id = lastOp'.args[1]
                    THEN [turnouts[i] EXCEPT !.thrown = ~turnouts[i].thrown]
                    ELSE turnouts[i]
     /\ (lastOp.name = "toggle" /\ ret = 1 /\ lastOp' = lastOp)
          => turnouts' = before.turnouts]_vars

C11_Witness ==
  /\ lastOp.name = "toggle"
  /\ prevOp = "toggle"
  /\ ret = 1
  /\ nops = 3
  /\ Len(turnouts) = 1
  /\ ~turnouts[1].thrown
  /\ before.turnouts[1].thrown

(***************************************************************************)
(* C12                                                                     *)
(***************************************************************************)
RECURSIVE BitOr(_, _, _)
BitOr(a, b, n) ==
  IF n = 0 THEN 0
  ELSE (IF (a % 2) + (b % 2) > 0 THEN 1 ELSE 0) + 2 * BitOr(a \div 2, b \div 2, n - 1)

\* C12: AccessoryCommand::process queues exactly one packet of exactly two
\* bytes, byte0 = 0x80 | (address mod 64) and
\* byte1 = ((((address / 64) mod 8) << 4) | ((index mod 4) << 1) | activate)
\* XOR 0xF8; byte0 has the form 10AAAAAA, byte1 has bit 7 and bit 3 set, and
\* (address 1, index 0, activate) yields 0x81, 0xF9.
C12_AccessoryPacket ==
  lastOp.name = "a"
    => LET address == lastOp.args[1]
           index == lastOp.args[2]
           activate == lastOp.args[3]
           byte0 == BitOr(128, address % 64, 8)
           byte1 == BitXor(BitOr(BitOr(((address \div 64) % 8) * 16,
                                       (index % 4) * 2, 8),
                                 activate, 8),
                           248, 8)
       IN /\ Len(events) = 1
          /\ events[1].kind = "packet"
          /\ SubSeq(events[1].args, 1, 2) = <<byte0, byte1>>
          /\ Len(events[1].args) = 3
          /\ events[1].args[1] \in 128..191
          /\ (events[1].args[2] \div 128) % 2 = 1
          /\ (events[1].args[2] \div 8) % 2 = 1
          /\ events[1].args[2] \in 0..255
          /\ (address = 1 /\ index = 0 /\ activate = 1)
               => SubSeq(events[1].args, 1, 2) = <<129, 249>>

C12_Witness ==
  /\ lastOp = [name |-> "a", args |-> <<2044, 255, 1>>]
  /\ SubSeq(events[1].args, 1, 2) = <<188, 143>>

(***************************************************************************)
(* C13                                                                     *)
(***************************************************************************)
\* C13: for every decoder address in 1..2044 the mapper yields
\* boardAddress = (address + 3) / 4 in 1..511 and
\* boardIndex = address - boardAddress*4 + 3 in 0..3, with
\* boardAddress*4 - 3 <= address <= boardAddress*4 and
\* address = boardAddress*4 - 3 + boardIndex.
C13_AddressMapper ==
  lastOp.name = "calculateTurnoutBoardAddressAndIndex"
    => LET address == lastOp.args[1]
           boardAddress == events[1].args[1]
           boardIndex == events[1].args[2]
       IN /\ address \in 1..2044
          /\ boardAddress = (address + 3) \div 4
          /\ boardAddress \in 1..511
          /\ boardIndex = (address - (boardAddress * 4)) + 3
          /\ boardIndex \in 0..3
          /\ (boardAddress * 4) - 3 <= address
          /\ address <= boardAddress * 4
          /\ address = ((boardAddress * 4) - 3) + boardIndex

C13_Witness ==
  /\ lastOp = [name |-> "calculateTurnoutBoardAddressAndIndex", args |-> <<2044>>]
  /\ events[1].args = <<511, 3>>

(***************************************************************************)
(* C14                                                                     *)
(***************************************************************************)
\* C14: no two turnouts in the registry share an id in any reachable state,
\* under every sequence of registry operations including init() on a
\* non-empty registry.
C14_NoDuplicateIds ==
  \A i, j \in 1..Len(turnouts) : turnouts[i].id = turnouts[j].id => i = j

C16_StoreAndClear ==
  /\ doc.count = Len(doc.turnouts)
  /\ lastOp.name = "store"
       => /\ turnouts = before.turnouts
          /\ ret = Len(turnouts)
          /\ doc.hasCount
          /\ doc.count = Len(turnouts)
          /\ Len(doc.turnouts) = Len(turnouts)
          /\ \A i \in 1..Len(turnouts) :
               /\ doc.turnouts[i].id = turnouts[i].id
               /\ doc.turnouts[i].address = turnouts[i].address
               /\ doc.turnouts[i].boardAddress = turnouts[i].boardAddress
               /\ doc.turnouts[i].subAddress =
                    (IF turnouts[i].boardAddress # 0 THEN -1 ELSE turnouts[i].index)
               /\ doc.turnouts[i].state \in BOOLEAN
               /\ doc.turnouts[i].state = turnouts[i].thrown
               /\ doc.turnouts[i].orientation = turnouts[i].orientation
  /\ lastOp.name = "clear"
       => /\ turnouts = <<>>
          /\ doc.hasCount
          /\ doc.count = 0
          /\ doc.turnouts = <<>>

C16_Witness ==
  /\ lastOp.name = "store"
  /\ ret = 2
  /\ before.doc.count = 1
  /\ doc.count = 2
  /\ doc.turnouts[2].id # before.doc.turnouts[1].id

(***************************************************************************)
(* C17                                                                     *)
(***************************************************************************)
\* C17: init() on an empty registry: if the stored document is absent or its
\* count is zero the registry stays empty; otherwise the registry holds
\* exactly one turnout per stored record in document order, each with the
\* record's id, address, thrown state and orientation, and with
\* boardAddress/index derived by the address mapper when the record's
\* subAddress is -1 and boardAddress = 0 with index = subAddress otherwise.
C17_InitLoadsDocument ==
  (\/ lastOp.name = "PowerCycle"
   \/ lastOp.name = "init" /\ before.turnouts = <<>>)
    => IF ~doc.hasCount \/ doc.count = 0
       THEN turnouts = <<>>
       ELSE /\ Len(turnouts) = Len(doc.turnouts)
            /\ \A i \in 1..Len(turnouts) :
                 LET t == turnouts[i]
                     r == doc.turnouts[i]
                 IN /\ t.id = r.id
                    /\ t.address = r.address
                    /\ t.thrown = r.state
                    /\ t.orientation = r.orientation
                    /\ IF r.subAddress = -1
                       THEN /\ t.boardAddress = (r.address + 3) \div 4
                            /\ t.index = (r.address - (t.boardAddress * 4)) + 3
                       ELSE /\ t.boardAddress = 0
                            /\ t.index = r.subAddress

C17_Witness ==
  /\ lastOp.name = "PowerCycle"
  /\ Len(turnouts) = 2
  /\ \E i, j \in 1..2 :
       /\ doc.turnouts[i].subAddress = -1
       /\ turnouts[i].boardAddress = 5
       /\ turnouts[i].index = 3
       /\ doc.turnouts[j].subAddress = 2
       /\ turnouts[j].boardAddress = 0

(***************************************************************************)
(* C18                                                                     *)
(***************************************************************************)
\* the smallest of a non-empty set of positions, 0 for the empty set
FirstOf(hits) == IF hits = {} THEN 0 ELSE CHOOSE i \in hits : \A j \in hits : i <= j

\* C18: each lookup returns the first matching turnout in insertion order, or
\* nullptr when none matches; with several turnouts on one address,
\* getTurnoutByAddress returns the earliest inserted.
C18_LookupsReturnFirstMatch ==
  /\ lastOp.name = "getTurnoutByID"
       => ret = FirstOf({i \in 1..Len(turnouts) : turnouts[i].id = lastOp.args[1]})
  /\ lastOp.name = "getTurnoutByIndex"
       => ret = FirstOf({i \in 1..Len(turnouts) : i - 1 = lastOp.args[1]})
  /\ lastOp.name = "getTurnoutByAddress"
       => ret = FirstOf({i \in 1..Len(turnouts) : turnouts[i].address = lastOp.args[1]})

(***************************************************************************)
(* C19                                                                     *)
(***************************************************************************)
\* the turnouts of list ts whose id is not id, in order
OtherThan(ts, id) == SelectSeq(ts, LAMBDA t : t.id # id)

\* C19: a turnout's thrown is always CLOSED or THROWN and changes only in a
\* set or toggle step that targets its id: createOrUpdate (update), store and
\* the lookups leave the state of every existing turnout alone, set, toggle
\* and remove leave the turnouts of other ids alone, and every set or toggle
\* on an existing id succeeds, moves the turnout to the requested (set) or
\* opposite (toggle) state and broadcasts that state.
C19_ThrownStateMachine ==
  /\ \A i \in 1..Len(turnouts) : turnouts[i].thrown \in BOOLEAN
  /\ lastOp.name \in {"createOrUpdate", "store", "getTurnoutByID",
                      "getTurnoutByAddress", "getTurnoutByIndex"}
       => /\ Len(turnouts) >= Len(before.turnouts)
          /\ \A i \in 1..Len(before.turnouts) :
               /\ turnouts[i].id = before.turnouts[i].id
               /\ turnouts[i].thrown = before.turnouts[i].thrown
  /\ lastOp.name \in {"set", "toggle", "remove"}
       => OtherThan(turnouts, lastOp.args[1]) = OtherThan(before.turnouts, lastOp.args[1])
  /\ (lastOp.name \in {"set", "toggle"} /\ lastOp.args[1] \in IdsOf(before.turnouts))
       => /\ ret = 1
          /\ Len(turnouts) = Len(before.turnouts)
          /\ \A i \in WithId(before.turnouts, lastOp.args[1]) :
               LET target == IF lastOp.name = "set" THEN lastOp.args[2] = 1
                             ELSE ~before.turnouts[i].thrown
               IN /\ turnouts[i].id = lastOp.args[1]
                  /\ turnouts[i].thrown = target
                  /\ \E k \in 1..Len(events) :
                       events[k] = HEvent(<<lastOp.args[1], BoolInt(target)>>)

C19_Witness ==
  /\ lastOp.name = "toggle"
  /\ ret = 1
  /\ Len(turnouts) = 2
  /\ \E i, j \in 1..2 :
       /\ turnouts[i].id = lastOp.args[1]
       /\ turnouts[i].thrown
       /\ turnouts[j].id # lastOp.args[1]
       /\ turnouts[j].thrown

(***************************************************************************)
(* C20                                                                     *)
(***************************************************************************)
\* C20: registry operations are mutually exclusive: the scan-then-mutate
\* steps of two contexts never interleave (a finishing context finds the list
\* as its scan left it), so once no operation is in progress no id is held by
\* two turnouts, and no remove deletes a turnout that a scan in progress
\* points to.
C20_MutualExclusion ==
  /\ lastOp.name \in {"createOrUpdate.finish", "remove.finish"}
       => before.turnouts = scan[lastOp.args[1]].seen
  /\ (\A task \in Tasks : scan[task].op = "idle")
       => \A id \in IdsOf(turnouts) : Cardinality(WithId(turnouts, id)) = 1
  /\ \A task \in Tasks : scan[task].op # "idle" => ~scan[task].dangling

====
